---- MODULE Spec2Model ----
(***************************************************************************)
(* Model of the cross-platform UI automation action layer: the MCP tool   *)
(* handlers tap_element, swipe, drag_and_drop, execute_script              *)
(* (src/unnamed/part_000) and scroll, get_accessibility, rotate_device,    *)
(* hide_keyboard, get_geolocation, set_geolocation                         *)
(* (src/src/tools/scroll.tool.ts).                                         *)
(*                                                                         *)
(* One behaviour is one invocation of one handler against one session.     *)
(* JavaScript values are tagged records, strings are TLA+ strings (Len,    *)
(* SubSeq and \o act on them character by character), and every backend    *)
(* driver call the handler issues is appended to the log `calls`.          *)
(***************************************************************************)
EXTENDS Integers, Sequences, FiniteSets, TLC

VARIABLES
  session,    \* kind of the current session, or "none"
  pc,         \* "idle" | "resolving" | "done" | "flatten" | "flattened"
  tool,       \* name of the invoked handler
  args,       \* the arguments of the invocation
  env,        \* what the backend answers in this invocation
  calls,      \* backend driver calls issued so far, in order
  reply,      \* what the handler gave back: [raised, content]
  induced,    \* the failure conditions that occurred in this invocation
  tasks,      \* execute_script: the per-argument resolutions [pc, val, answer]
  completed,  \* execute_script: indices in the order the resolutions settled
  payload,    \* get_accessibility: the object handed to encode()
  tree,       \* flattening: the raw accessibility tree
  flat        \* flattening: the entries emitted

vars == <<session, pc, tool, args, env, calls, reply, induced, tasks,
          completed, payload, tree, flat>>

----------------------------------------------------------------------------
(* Bounds of the model. *)

MaxArgs == 2      \* longest script argument list
MaxCoord == 1     \* coordinates range over -MaxCoord..MaxCoord
MaxNodes == 3     \* most nodes in a raw accessibility tree
MaxSnapshotNodes == 2  \* most nodes in a snapshot the backend answers with
MaxLimit == 2     \* largest explicit limit
MaxOffset == 3    \* largest explicit offset

----------------------------------------------------------------------------
(* JavaScript values. *)

Undefined == [undef |-> TRUE]
Null == [null |-> TRUE]
B(b) == [bool |-> b]
N(n) == [num |-> n]
S(s) == [str |-> s]
Obj(k) == [obj |-> k]
Element(selector) == [elem |-> selector]
Err(msg) == [error |-> msg]

IsString(v) == DOMAIN v = {"str"}
IsObject(v) == "obj" \in DOMAIN v \/ "elem" \in DOMAIN v

\* if (v), v ? a : b, v || d
Truthy(v) ==
  ~(v = Undefined \/ v = Null \/ v = B(FALSE) \/ v = N(0) \/ v = S(""))

\* v ?? d
Nullish(v) == v = Undefined \/ v = Null

OrElse(v, d) == IF Truthy(v) THEN v ELSE d

Coalesce(v, d) == IF Nullish(v) THEN d ELSE v

\* s.startsWith(p)
StartsWith(s, p) == Len(s) >= Len(p) /\ SubSeq(s, 1, Len(p)) = p

\* `${v}`
ToStr(v) ==
  CASE DOMAIN v = {"str"} -> v.str
    [] DOMAIN v = {"num"} -> ToString(v.num)
    [] DOMAIN v = {"bool"} -> (IF v.bool THEN "true" ELSE "false")
    [] DOMAIN v = {"undef"} -> "undefined"
    [] DOMAIN v = {"null"} -> "null"
    [] DOMAIN v = {"error"} -> "Error: " \o v.error
    [] OTHER -> "[object Object]"

----------------------------------------------------------------------------
(* The session provider and the backend driver. *)

SessionKinds == {"browser", "mobile-android", "mobile-ios"}

NoSession == Err("No active browser session")
BackendFault == Err("backend fault")

\* getBrowser(): the active handle, or a fault when there is no session
GetBrowserThrows(sess) == sess = "none"

\* state.sessionMetadata.get(state.currentSession)?.type
SessionType(sess) == IF sess \in SessionKinds THEN S(sess) ELSE Undefined

\* browser.isAndroid, browser.isIOS
IsAndroid(sess) == sess = "mobile-android"
IsIOS(sess) == sess = "mobile-ios"

Call(op, a) == [op |-> op, args |-> a]

\* The calls of `plan` issued when its f-th call throws (f = 0: none does).
Throws(plan, f) == f \in 1..Len(plan)
Issued(plan, f) == IF Throws(plan, f) THEN SubSeq(plan, 1, f) ELSE plan

----------------------------------------------------------------------------
(* The result envelope. *)

Ret(text) == [ret |-> text]
Throw(e) == [throw |-> e]

TextBlock(text) == [type |-> "text", text |-> text]

\* The handler without its catch: the fault reaches the caller.
TryCatchRethrows(verb, out) ==
  IF DOMAIN out = {"throw"}
  THEN [raised |-> TRUE, content |-> <<>>]
  ELSE [raised |-> FALSE, content |-> <<TextBlock(out.ret)>>]

\* try { ... return { content: [...] } } catch (e) { return `Error <verb>: ${e}` }
TryCatch(verb, out) ==
  IF DOMAIN out = {"throw"}
  THEN [raised |-> FALSE,
        content |-> <<TextBlock("Error " \o verb \o ": " \o ToStr(out.throw))>>]
  ELSE [raised |-> FALSE, content |-> <<TextBlock(out.ret)>>]

\* A handler body that runs `plan` and then returns okText.
Run(plan, f, okText) ==
  [calls |-> Issued(plan, f),
   out |-> IF Throws(plan, f) THEN Throw(BackendFault) ELSE Ret(okText),
   induced |-> IF Throws(plan, f) THEN {"backend_fault"} ELSE {}]

NoHandle == [calls |-> <<>>, out |-> Throw(NoSession), induced |-> {"provider_fault"}]

NoResult == [raised |-> FALSE, content |-> <<>>]

\* What a handler leaves behind: the calls it issued and its result.
Handle(verb, body) ==
  [calls |-> body.calls,
   induced |-> body.induced,
   reply |-> TryCatch(verb, body.out)]

----------------------------------------------------------------------------
(* tap_element *)

TapMissingText == "Error: Must provide either selector or x,y coordinates"

TapElementBody(sess, a, f) ==
  IF GetBrowserThrows(sess) THEN NoHandle
  ELSE IF Truthy(a.selector)
  THEN Run(<<Call("$", <<a.selector>>), Call("element.tap", <<a.selector>>)>>, f,
           "Tapped element: " \o ToStr(a.selector))
  ELSE IF a.x # Undefined /\ a.y # Undefined
  THEN Run(<<Call("tap", <<a.x, a.y>>)>>, f,
           "Tapped at coordinates: (" \o ToStr(a.x) \o ", " \o ToStr(a.y) \o ")")
  ELSE [calls |-> <<>>, out |-> Ret(TapMissingText), induced |-> {}]

TapElementTool(sess, a, f) == Handle("tapping", TapElementBody(sess, a, f))

----------------------------------------------------------------------------
(* swipe.  A percent is kept in hundredths: 0.5 is 50, 0.95 is 95, 1 is 100. *)

DefaultDuration == 500
DefaultPercentVertical == 50
DefaultPercentHorizontal == 95

ContentToFingerDirection(direction) ==
  CASE direction = "up" -> "down"
    [] direction = "down" -> "up"
    [] direction = "left" -> "right"
    [] direction = "right" -> "left"

IsVertical(direction) == direction = "up" \/ direction = "down"

DefaultPercent(direction) ==
  IF IsVertical(direction) THEN DefaultPercentVertical ELSE DefaultPercentHorizontal

\* percent || defaultPercent: an explicit 0 is taken for a missing percent.
EffectivePercentOr(percent, direction) == OrElse(percent, N(DefaultPercent(direction)))

EffectivePercent(percent, direction) == Coalesce(percent, N(DefaultPercent(direction)))

EffectiveDuration(duration) == Coalesce(duration, N(DefaultDuration))

SwipeCall(direction, duration, percent) ==
  Call("swipe", <<S(direction), duration, percent>>)

SwipeBody(sess, a, f) ==
  IF GetBrowserThrows(sess) THEN NoHandle
  ELSE Run(<<SwipeCall(ContentToFingerDirection(a.direction),
                       EffectiveDuration(a.duration),
                       EffectivePercent(a.percent, a.direction))>>, f,
           "Swiped " \o a.direction)

SwipeTool(sess, a, f) == Handle("swiping", SwipeBody(sess, a, f))

----------------------------------------------------------------------------
(* drag_and_drop *)

DragMissingText == "Error: Must provide either targetSelector or x,y coordinates"

DragAndDropBody(sess, a, f) ==
  IF GetBrowserThrows(sess) THEN NoHandle
  ELSE IF Truthy(a.targetSelector)
  THEN Run(<<Call("$", <<a.sourceSelector>>),
             Call("$", <<a.targetSelector>>),
             Call("element.dragAndDrop",
                  <<a.sourceSelector, a.targetSelector, a.duration>>)>>, f,
           "Dragged " \o ToStr(a.sourceSelector) \o " to " \o ToStr(a.targetSelector))
  ELSE IF a.x # Undefined /\ a.y # Undefined
  THEN Run(<<Call("$", <<a.sourceSelector>>),
             Call("element.dragAndDrop", <<a.sourceSelector, a.x, a.y, a.duration>>)>>, f,
           "Dragged " \o ToStr(a.sourceSelector) \o " by (" \o ToStr(a.x) \o ", "
             \o ToStr(a.y) \o ")")
  ELSE Run(<<Call("$", <<a.sourceSelector>>)>>, f, DragMissingText)

DragAndDropTool(sess, a, f) == Handle("dragging", DragAndDropBody(sess, a, f))

----------------------------------------------------------------------------
(* scroll *)

DefaultPixels == 500

ScrollRestriction ==
  Err("scroll only works in browser sessions. For mobile, use the swipe tool.")

ScrollAmount(direction, pixels) == IF direction = "down" THEN pixels ELSE -pixels

\* scroll without the check of the session type.
ScrollBodyUnguarded(sess, a, f) ==
  LET pixels == IF a.pixels = Undefined THEN DefaultPixels ELSE a.pixels.num IN
  IF GetBrowserThrows(sess) THEN NoHandle
  ELSE Run(<<Call("execute",
                  <<S("window.scrollBy(0, amount)"), N(ScrollAmount(a.direction, pixels))>>)>>,
           f, "Scrolled " \o a.direction \o " " \o ToString(pixels) \o " pixels")

ScrollBody(sess, a, f) ==
  LET pixels == IF a.pixels = Undefined THEN DefaultPixels ELSE a.pixels.num IN
  IF GetBrowserThrows(sess) THEN NoHandle
  ELSE IF SessionType(sess) # S("browser")
  THEN [calls |-> <<>>, out |-> Throw(ScrollRestriction), induced |-> {}]
  ELSE Run(<<Call("execute",
                  <<S("window.scrollBy(0, amount)"), N(ScrollAmount(a.direction, pixels))>>)>>,
           f, "Scrolled " \o a.direction \o " " \o ToString(pixels) \o " pixels")

ScrollTool(sess, a, f) == Handle("scrolling", ScrollBody(sess, a, f))

----------------------------------------------------------------------------
(* rotate_device, hide_keyboard, get_geolocation, set_geolocation *)

RotateDeviceBody(sess, a, f) ==
  IF GetBrowserThrows(sess) THEN NoHandle
  ELSE Run(<<Call("setOrientation", <<S(a.orientation)>>)>>, f,
           "Device rotated to: " \o a.orientation)

RotateDeviceTool(sess, a, f) == Handle("rotating device", RotateDeviceBody(sess, a, f))

HideKeyboardBody(sess, f) ==
  IF GetBrowserThrows(sess) THEN NoHandle
  ELSE Run(<<Call("hideKeyboard", <<>>)>>, f, "Keyboard hidden")

HideKeyboardTool(sess, f) == Handle("hiding keyboard", HideKeyboardBody(sess, f))

GetGeolocationBody(sess, location, f) ==
  IF GetBrowserThrows(sess) THEN NoHandle
  ELSE Run(<<Call("getGeoLocation", <<>>)>>, f,
           "Location:\n  Latitude: " \o ToStr(location.latitude)
             \o "\n  Longitude: " \o ToStr(location.longitude)
             \o "\n  Altitude: " \o ToStr(OrElse(location.altitude, S("N/A"))))

GetGeolocationTool(sess, location, f) ==
  Handle("getting geolocation", GetGeolocationBody(sess, location, f))

SetGeolocationBody(sess, a, f) ==
  IF GetBrowserThrows(sess) THEN NoHandle
  ELSE Run(<<Call("setGeoLocation", <<a.latitude, a.longitude, a.altitude>>)>>, f,
           "Geolocation set to:\n  Latitude: " \o ToStr(a.latitude)
             \o "\n  Longitude: " \o ToStr(a.longitude)
             \o (IF Truthy(a.altitude)
                 THEN "\n  Altitude: " \o ToStr(a.altitude) \o "m" ELSE ""))

SetGeolocationTool(sess, a, f) ==
  Handle("setting geolocation", SetGeolocationBody(sess, a, f))

----------------------------------------------------------------------------
(* get_accessibility: flattening.  A raw node is [attrs, children]: attrs   *)
(* gives every attribute its raw value (Undefined when the node lacks it),  *)
(* children is Undefined or [arr |-> <<node, ...>>].  An entry is the       *)
(* sequence of its <<key, value>> pairs in the order the object literal     *)
(* lists them.                                                              *)

Keys ==
  <<"role", "name", "value", "description", "disabled",
    "focused", "selected", "checked", "expanded", "pressed",
    "readonly", "required", "level", "valuemin", "valuemax",
    "autocomplete", "haspopup", "invalid", "modal", "multiline",
    "multiselectable", "orientation", "keyshortcuts", "roledescription", "valuetext">>

KeySet == {Keys[i] : i \in 1..Len(Keys)}

\* node.k || ''
OrEmpty(v) == OrElse(v, S(""))

\* node.k, with no default for a missing attribute.
CoalesceNothing(v) == v

\* node.k ?? ''
CoalesceEmpty(v) == Coalesce(v, S(""))

\* A flag serialised like a tri-state: false is written out.
FlagLiteral(v) ==
  IF v = B(TRUE) THEN S("true") ELSE IF v = B(FALSE) THEN S("false") ELSE S("")

\* node.k ? 'true' : ''
Flag(v) == IF Truthy(v) THEN S("true") ELSE S("")

\* node.k === true ? 'true' : node.k === false ? 'false' : node.k === 'mixed' ? 'mixed' : ''
TriState(v) ==
  IF v = B(TRUE) THEN S("true")
  ELSE IF v = B(FALSE) THEN S("false")
  ELSE IF v = S("mixed") THEN S("mixed")
  ELSE S("")

\* node.expanded === true ? 'true' : node.expanded === false ? 'false' : ''
TwoState(v) ==
  IF v = B(TRUE) THEN S("true")
  ELSE IF v = B(FALSE) THEN S("false")
  ELSE S("")

Entry(node) ==
  <<<<"role", OrEmpty(node.attrs.role)>>,
    <<"name", OrEmpty(node.attrs.name)>>,
    <<"value", CoalesceEmpty(node.attrs.value)>>,
    <<"description", OrEmpty(node.attrs.description)>>,
    <<"disabled", Flag(node.attrs.disabled)>>,
    <<"focused", Flag(node.attrs.focused)>>,
    <<"selected", Flag(node.attrs.selected)>>,
    <<"checked", TriState(node.attrs.checked)>>,
    <<"expanded", TwoState(node.attrs.expanded)>>,
    <<"pressed", TriState(node.attrs.pressed)>>,
    <<"readonly", Flag(node.attrs.readonly)>>,
    <<"required", Flag(node.attrs.required)>>,
    <<"level", CoalesceEmpty(node.attrs.level)>>,
    <<"valuemin", CoalesceEmpty(node.attrs.valuemin)>>,
    <<"valuemax", CoalesceEmpty(node.attrs.valuemax)>>,
    <<"autocomplete", OrEmpty(node.attrs.autocomplete)>>,
    <<"haspopup", OrEmpty(node.attrs.haspopup)>>,
    <<"invalid", Flag(node.attrs.invalid)>>,
    <<"modal", Flag(node.attrs.modal)>>,
    <<"multiline", Flag(node.attrs.multiline)>>,
    <<"multiselectable", Flag(node.attrs.multiselectable)>>,
    <<"orientation", OrEmpty(node.attrs.orientation)>>,
    <<"keyshortcuts", OrEmpty(node.attrs.keyshortcuts)>>,
    <<"roledescription", OrEmpty(node.attrs.roledescription)>>,
    <<"valuetext", OrEmpty(node.attrs.valuetext)>>>>

EntryKeys(entry) == [i \in 1..Len(entry) |-> entry[i][1]]

EntryGet(entry, k) == entry[CHOOSE i \in 1..Len(entry) : entry[i][1] = k][2]

\* node.role !== 'WebArea' || node.name
IsEmitted(node) == node.attrs.role # S("WebArea") \/ Truthy(node.attrs.name)

RECURSIVE FlattenAccessibilityTree(_, _)
RECURSIVE FlattenChildren(_, _, _)

\* A traversal that takes the children last to first.
RECURSIVE FlattenChildrenReversed(_, _, _)
FlattenChildrenReversed(children, i, result) ==
  IF i > Len(children) THEN result
  ELSE FlattenChildrenReversed(children, i + 1,
         FlattenAccessibilityTree(children[Len(children) - i + 1], result))

FlattenChildren(children, i, result) ==
  IF i > Len(children) THEN result
  ELSE FlattenChildren(children, i + 1, FlattenAccessibilityTree(children[i], result))

FlattenAccessibilityTree(node, result) ==
  IF Nullish(node) THEN result
  ELSE LET pushed == IF IsEmitted(node) THEN Append(result, Entry(node)) ELSE result
       IN IF Truthy(node.children)
          THEN FlattenChildren(node.children.arr, 1, pushed)
          ELSE pushed

----------------------------------------------------------------------------
(* get_accessibility: filters and pagination. *)

DefaultLimit == 100
DefaultOffset == 0

UpperCase == "ABCDEFGHIJKLMNOPQRSTUVWXYZ"
LowerCase == "abcdefghijklmnopqrstuvwxyz"

LowerChar(c) ==
  IF \E i \in 1..Len(UpperCase) : SubSeq(UpperCase, i, i) = c
  THEN LET i == CHOOSE i \in 1..Len(UpperCase) : SubSeq(UpperCase, i, i) = c
       IN SubSeq(LowerCase, i, i)
  ELSE c

\* s.toLowerCase()
RECURSIVE ToLowerCase(_)
ToLowerCase(s) ==
  IF s = "" THEN "" ELSE LowerChar(SubSeq(s, 1, 1)) \o ToLowerCase(SubSeq(s, 2, Len(s)))

IsSpace(c) == c \in {" ", "\t", "\n"}

\* s.trim()
RECURSIVE Trim(_)
Trim(s) ==
  IF s = "" THEN ""
  ELSE IF IsSpace(SubSeq(s, 1, 1)) THEN Trim(SubSeq(s, 2, Len(s)))
  ELSE IF IsSpace(SubSeq(s, Len(s), Len(s))) THEN Trim(SubSeq(s, 1, Len(s) - 1))
  ELSE s

\* n.name && n.name.trim() !== ''
IsNamed(n) == Truthy(EntryGet(n, "name")) /\ Trim(EntryGet(n, "name").str) # ""

\* n.role && roleSet.has(n.role.toLowerCase())
HasRole(n, roleSet) ==
  Truthy(EntryGet(n, "role")) /\ ToLowerCase(EntryGet(n, "role").str) \in roleSet

FilterNamed(nodes, namedOnly) ==
  IF Truthy(namedOnly) THEN SelectSeq(nodes, IsNamed) ELSE nodes

FilterRoles(nodes, roles) ==
  IF Truthy(roles) /\ Len(roles.arr) > 0
  THEN LET roleSet == {ToLowerCase(roles.arr[i]) : i \in 1..Len(roles.arr)}
           Keep(n) == HasRole(n, roleSet)
       IN SelectSeq(nodes, Keep)
  ELSE nodes

\* nodes.slice(start) and nodes.slice(0, end), for start > 0 and end > 0
SliceFrom(nodes, start) == SubSeq(nodes, start + 1, Len(nodes))
SliceTo(nodes, end) == SubSeq(nodes, 1, IF end < Len(nodes) THEN end ELSE Len(nodes))

\* nodes.slice(offset, limit): the limit taken for an end index.
PaginateSliceEnd(nodes, limit, offset) ==
  LET total == Len(nodes)
      kept == IF limit > 0
              THEN SubSeq(nodes, offset + 1, IF limit < total THEN limit ELSE total)
              ELSE IF offset > 0 THEN SliceFrom(nodes, offset) ELSE nodes
  IN [total |-> total,
      showing |-> Len(kept),
      hasMore |-> offset + Len(kept) < total,
      nodes |-> kept]

Paginate(nodes, limit, offset) ==
  LET total == Len(nodes)
      skipped == IF offset > 0 THEN SliceFrom(nodes, offset) ELSE nodes
      kept == IF limit > 0 THEN SliceTo(skipped, limit) ELSE skipped
  IN [total |-> total,
      showing |-> Len(kept),
      hasMore |-> offset + Len(kept) < total,
      nodes |-> kept]

----------------------------------------------------------------------------
(* get_accessibility: the text of the result.  encode() is the TOON         *)
(* library's: an object of scalars and one uniform array, written as        *)
(* key: value lines and a table, strings quoted where a bare one would be   *)
(* misread.                                                                 *)

RECURSIVE Join(_, _)
Join(parts, sep) ==
  IF parts = <<>> THEN ""
  ELSE IF Len(parts) = 1 THEN parts[1]
  ELSE parts[1] \o sep \o Join(Tail(parts), sep)

RECURSIVE HasChar(_, _)
HasChar(s, chars) ==
  s # "" /\ (SubSeq(s, 1, 1) \in chars \/ HasChar(SubSeq(s, 2, Len(s)), chars))

NeedsQuotes(s) ==
  \/ s = ""
  \/ Trim(s) # s
  \/ s \in {"true", "false", "null"}
  \/ HasChar(s, {",", ":", "\"", "[", "]", "{", "}"})

ToonCell(v) ==
  IF IsString(v) /\ NeedsQuotes(v.str) THEN "\"" \o v.str \o "\"" ELSE ToStr(v)

ToonRow(entry) == "  " \o Join([i \in 1..Len(entry) |-> ToonCell(entry[i][2])], ",")

ToonLines(r) ==
  <<"total: " \o ToString(r.total),
    "showing: " \o ToString(r.showing),
    "hasMore: " \o (IF r.hasMore THEN "true" ELSE "false"),
    "nodes[" \o ToString(Len(r.nodes)) \o "]"
      \o (IF r.nodes = <<>> THEN "" ELSE "{" \o Join(EntryKeys(r.nodes[1]), ",") \o "}")
      \o ":">>
    \o [i \in 1..Len(r.nodes) |-> ToonRow(r.nodes[i])]

\* s.replace(/pat/g, rep): the matches are taken left to right, each search
\* starting where the match before it ended.
MatchesAt(s, pat, i) ==
  i + Len(pat) - 1 <= Len(s) /\ SubSeq(s, i, i + Len(pat) - 1) = pat

RECURSIVE ReplaceFrom(_, _, _, _, _)
ReplaceFrom(s, pat, rep, from, found) ==
  LET ahead == {i \in found : i >= from} IN
  IF ahead = {} THEN SubSeq(s, from, Len(s))
  ELSE LET m == CHOOSE i \in ahead : \A j \in ahead : i <= j
       IN SubSeq(s, from, m - 1) \o rep \o ReplaceFrom(s, pat, rep, m + Len(pat), found)

ReplaceAll(s, pat, rep) ==
  ReplaceFrom(s, pat, rep, 1, {i \in 1..Len(s) : MatchesAt(s, pat, i)})

\* encode(result).replace(/,""/g, ',').replace(/"",/g, ','): neither pattern
\* holds a line break, so the replacements act line by line.
EncodeResult(r) ==
  LET lines == ToonLines(r) IN
  Join([i \in 1..Len(lines) |->
          ReplaceAll(ReplaceAll(lines[i], ",\"\"", ","), "\"\",", ",")], "\n")

----------------------------------------------------------------------------
(* get_accessibility: the handler. *)

AccessibilityRestriction ==
  "Error: get_accessibility is browser-only. For mobile apps, use get_visible_elements instead."

\* const { limit = 100, offset = 0, roles, namedOnly = true } = args || {}
OrDefault(v, d) == IF v = Undefined THEN d ELSE v

Normalize(snapshot, a) ==
  Paginate(FilterRoles(FilterNamed(FlattenAccessibilityTree(snapshot, <<>>),
                                   OrDefault(a.namedOnly, B(TRUE))),
                       a.roles),
           OrDefault(a.limit, N(DefaultLimit)).num,
           OrDefault(a.offset, N(DefaultOffset)).num)

GetAccessibilityBody(sess, a, e) ==
  LET plan == <<Call("getPuppeteer", <<>>), Call("pages", <<>>),
                Call("accessibility.snapshot", <<>>)>>
      Stop(issued, out, why) ==
        [calls |-> issued, out |-> out, induced |-> why, payload |-> Null]
  IN
  IF GetBrowserThrows(sess) THEN Stop(<<>>, Throw(NoSession), {"provider_fault"})
  ELSE IF IsAndroid(sess) \/ IsIOS(sess)
  THEN Stop(<<>>, Ret(AccessibilityRestriction), {})
  ELSE IF e.fault \in 1..2
  THEN Stop(Issued(plan, e.fault), Throw(BackendFault), {"backend_fault"})
  ELSE IF e.pages = 0
  THEN Stop(SubSeq(plan, 1, 2), Ret("No active pages found"), {})
  ELSE IF e.fault = 3
  THEN Stop(plan, Throw(BackendFault), {"backend_fault"})
  ELSE IF ~Truthy(e.snapshot)
  THEN Stop(plan, Ret("No accessibility tree available"), {})
  ELSE LET r == Normalize(e.snapshot, a)
       IN [calls |-> plan, out |-> Ret(EncodeResult(r)), induced |-> {}, payload |-> r]

GetAccessibilityTreeTool(sess, a, e) ==
  LET body == GetAccessibilityBody(sess, a, e)
  IN [calls |-> body.calls,
      induced |-> body.induced,
      reply |-> TryCatch("getting accessibility tree", body.out),
      payload |-> body.payload]

----------------------------------------------------------------------------
(* execute_script *)

MobilePrefix == "mobile:"

\* const { script, args: scriptArgs = [] } = args
ScriptArgs(a) == IF a.args = Undefined THEN <<>> ELSE a.args.arr

\* The lookup attempted for every string, whatever the script.
NeedsLookupAnyScript(script, arg) == IsString(arg)

\* typeof arg === 'string' && !script.startsWith('mobile:')
NeedsLookup(script, arg) == IsString(arg) /\ ~StartsWith(script, MobilePrefix)

\* scriptArgs.map(async (arg) => ...): every mapper runs up to its first await,
\* so the lookups are issued in index order before any of them settles.
StartTasks(script, raw) ==
  [i \in 1..Len(raw) |->
     [pc |-> IF NeedsLookup(script, raw[i]) THEN "lookup" ELSE "done",
      val |-> raw[i],
      answer |-> "none"]]

RECURSIVE IndicesWith(_, _, _)
IndicesWith(t, state, i) ==
  IF i > Len(t) THEN <<>>
  ELSE (IF t[i].pc = state THEN <<i>> ELSE <<>>) \o IndicesWith(t, state, i + 1)

LookupCalls(t) ==
  LET idx == IndicesWith(t, "lookup", 1)
  IN [k \in 1..Len(idx) |-> Call("$", <<t[idx[k]].val>>)]

\* The element returned without asking whether it exists.
ResolvedUnchecked(arg, answer) ==
  IF answer \in {"exists", "missing"} THEN Element(arg.str) ELSE arg

\* if (await element.isExisting()) return element; ... return arg
Resolved(arg, answer) == IF answer = "exists" THEN Element(arg.str) ELSE arg

AllSettled(t) == \A i \in 1..Len(t) : t[i].pc = "done"

\* The values collected as the promises settle.
PromiseAllInSettleOrder(t, order) == [k \in 1..Len(t) |-> t[order[k]].val]

\* await Promise.all(promises): the values in the order of the promises
PromiseAll(t, order) == [i \in 1..Len(t) |-> t[i].val]

\* JSON.stringify(result, null, 2); an object names its own JSON text
StringifyThrows(r) == "cyclic" \in DOMAIN r
Stringify(r) == r.obj

FormatResult(r) ==
  IF r = Undefined \/ r = Null THEN "Script executed successfully (no return value)"
  ELSE IF IsObject(r)
  THEN (IF StringifyThrows(r) THEN "Result: " \o ToStr(r) ELSE "Result: " \o Stringify(r))
  ELSE "Result: " \o ToStr(r)

\* const result = await browser.execute(script, ...resolvedArgs) and what follows
ExecuteBody(script, resolved, outcome) ==
  [calls |-> <<Call("execute", <<S(script)>> \o resolved)>>,
   out |-> IF outcome = BackendFault THEN Throw(BackendFault)
           ELSE Ret(FormatResult(outcome)),
   induced |-> IF outcome = BackendFault THEN {"backend_fault"} ELSE {}]

----------------------------------------------------------------------------
(* The inputs: arguments the input schemas admit, and backend answers. *)

Optional(values) == {Undefined} \cup values
Nums(values) == {N(n) : n \in values}

Coords == Optional(Nums(-MaxCoord..MaxCoord))
Durations == Optional(Nums({100, 5000}))

TapArgs == [selector : Optional({S(""), S("#a")}), x : Coords, y : Coords]

SwipeArgs ==
  [direction : {"up", "down", "left", "right"},
   duration : Durations,
   percent : Optional(Nums({0, 50, 100}))]

DragArgs ==
  [sourceSelector : {S("#s")},
   targetSelector : Optional({S(""), S("#t")}),
   x : Coords, y : Coords,
   duration : Optional(Nums({100}))]

ScrollArgs == [direction : {"up", "down"}, pixels : Optional(Nums({0, 200}))]

RotateArgs == [orientation : {"PORTRAIT", "LANDSCAPE"}]

Locations == [latitude : Nums({48}), longitude : Nums({-2}), altitude : Optional(Nums({0, 35}))]

SetGeolocationArgs ==
  [latitude : Nums({-90, 90}), longitude : Nums({-180, 0}), altitude : Optional(Nums({0, 35}))]

Scripts == {"mobile: pressKey", "arguments[0].click()", "mobile"}

ArgValues == {S("#a"), S("hello"), N(1), Obj("{\n  \"keycode\": 4\n}")}

RECURSIVE SeqsUpTo(_, _)
SeqsUpTo(values, n) ==
  IF n = 0 THEN {<<>>}
  ELSE LET shorter == SeqsUpTo(values, n - 1)
       IN shorter \cup {Append(q, v) : q \in {r \in shorter : Len(r) = n - 1}, v \in values}

ExecuteScriptArgs ==
  [script : Scripts,
   args : Optional({[arr |-> q] : q \in SeqsUpTo(ArgValues, MaxArgs)})]

CyclicObject == [obj |-> "cyclic", cyclic |-> TRUE]

ScriptOutcomes ==
  {BackendFault, Undefined, Null, N(7), S("done"), Obj("{\n  \"ok\": true\n}"), CyclicObject}

\* Raw accessibility nodes: a role and a name, every other attribute absent.
RawNode(role, name) ==
  [k \in KeySet |-> IF k = "role" THEN role ELSE IF k = "name" THEN name ELSE Undefined]

NodeKinds ==
  {RawNode(S("WebArea"), Undefined), RawNode(S("button"), S("OK")),
   RawNode(S("Link"), S(" "))}

RECURSIVE TreesOfSize(_)
RECURSIVE ForestsOfSize(_)

\* The sequences of trees that hold n nodes in all.
ForestsOfSize(n) ==
  IF n = 0 THEN {<<>>}
  ELSE UNION {{<<t>> \o f : t \in TreesOfSize(k), f \in ForestsOfSize(n - k)} : k \in 1..n}

\* The trees of exactly n nodes; a leaf has no children attribute.
TreesOfSize(n) ==
  {[attrs |-> a, children |-> IF f = <<>> THEN Undefined ELSE [arr |-> f]] :
     a \in NodeKinds, f \in ForestsOfSize(n - 1)}

TreesUpTo(n) == UNION {TreesOfSize(k) : k \in 1..n}

Trees == TreesUpTo(MaxNodes)

AccessibilityArgs ==
  [limit : Optional(Nums(0..MaxLimit)),
   offset : Optional(Nums(0..MaxOffset)),
   roles : Optional({[arr |-> <<>>], [arr |-> <<"link">>]}),
   namedOnly : Optional({B(FALSE)})]

NotAsked == [fault |-> 0, pages |-> 0, snapshot |-> Undefined]

AccessibilityAnswers ==
  {[fault |-> 1, pages |-> 0, snapshot |-> Undefined],
   [fault |-> 2, pages |-> 0, snapshot |-> Undefined],
   [fault |-> 0, pages |-> 0, snapshot |-> Undefined],
   [fault |-> 3, pages |-> 1, snapshot |-> Undefined],
   [fault |-> 0, pages |-> 1, snapshot |-> Null]}
  \cup {[fault |-> 0, pages |-> 1, snapshot |-> t] : t \in TreesUpTo(MaxSnapshotNodes)}

\* Raw values an attribute may carry.
RawValues == {Undefined, Null, B(TRUE), B(FALSE), S("mixed"), S(""), S("x"), N(0)}

\* The tree t with attribute k of its root set to v.
WithAttr(t, k, v) == [t EXCEPT !.attrs[k] = v]

AttrTrees == {WithAttr(t, k, v) : t \in Trees, k \in KeySet, v \in RawValues}

\* Trees one node larger than Trees, attributes as the node kinds give them:
\* the smallest size where depth-first and breadth-first orders differ.
DeepTrees == TreesOfSize(MaxNodes + 1)

----------------------------------------------------------------------------
(* The state machine of one invocation. *)

Blank ==
  /\ pc = "idle"
  /\ tool = "none"
  /\ args = Undefined
  /\ env = Undefined
  /\ calls = <<>>
  /\ reply = NoResult
  /\ induced = {}
  /\ tasks = <<>>
  /\ completed = <<>>
  /\ payload = Null
  /\ tree = Null
  /\ flat = <<>>

Init == session \in SessionKinds \cup {"none"} /\ Blank

\* The handler returns h to the caller.
Return(t, a, e, h, p) ==
  /\ pc' = "done"
  /\ tool' = t
  /\ args' = a
  /\ env' = e
  /\ calls' = calls \o h.calls
  /\ reply' = h.reply
  /\ induced' = induced \cup h.induced
  /\ payload' = p
  /\ UNCHANGED <<session, tasks, completed, tree, flat>>

TapElement ==
  /\ pc = "idle"
  /\ \E a \in TapArgs, f \in 0..2 :
       Return("tap_element", a, N(f), TapElementTool(session, a, f), Null)

Swipe ==
  /\ pc = "idle"
  /\ \E a \in SwipeArgs, f \in 0..1 :
       Return("swipe", a, N(f), SwipeTool(session, a, f), Null)

DragAndDrop ==
  /\ pc = "idle"
  /\ \E a \in DragArgs, f \in 0..3 :
       Return("drag_and_drop", a, N(f), DragAndDropTool(session, a, f), Null)

Scroll ==
  /\ pc = "idle"
  /\ \E a \in ScrollArgs, f \in 0..1 :
       Return("scroll", a, N(f), ScrollTool(session, a, f), Null)

RotateDevice ==
  /\ pc = "idle"
  /\ \E a \in RotateArgs, f \in 0..1 :
       Return("rotate_device", a, N(f), RotateDeviceTool(session, a, f), Null)

HideKeyboard ==
  /\ pc = "idle"
  /\ \E f \in 0..1 :
       Return("hide_keyboard", Undefined, N(f), HideKeyboardTool(session, f), Null)

GetGeolocation ==
  /\ pc = "idle"
  /\ \E location \in Locations, f \in 0..1 :
       Return("get_geolocation", Undefined, [fault |-> f, location |-> location],
              GetGeolocationTool(session, location, f), Null)

SetGeolocation ==
  /\ pc = "idle"
  /\ \E a \in SetGeolocationArgs, f \in 0..1 :
       Return("set_geolocation", a, N(f), SetGeolocationTool(session, a, f), Null)

GetAccessibility ==
  /\ pc = "idle"
  /\ \E a \in AccessibilityArgs,
        e \in (IF session = "browser" THEN AccessibilityAnswers ELSE {NotAsked}) :
       LET h == GetAccessibilityTreeTool(session, a, e)
       IN Return("get_accessibility", a, e, h, h.payload)

\* execute_script up to the await of Promise.all
ExecuteScriptStart ==
  /\ pc = "idle"
  /\ \E a \in ExecuteScriptArgs :
       IF GetBrowserThrows(session)
       THEN Return("execute_script", a, Undefined,
                   Handle("executing script", NoHandle), Null)
       ELSE LET t == StartTasks(a.script, ScriptArgs(a)) IN
            /\ pc' = "resolving"
            /\ tool' = "execute_script"
            /\ args' = a
            /\ tasks' = t
            /\ calls' = LookupCalls(t)
            /\ completed' = IndicesWith(t, "done", 1)
            /\ UNCHANGED <<session, env, reply, induced, payload, tree, flat>>

\* await browser.$(arg) settles for argument i
LookupSettles(i) ==
  /\ pc = "resolving"
  /\ i \in 1..Len(tasks)
  /\ tasks[i].pc = "lookup"
  /\ \E threw \in BOOLEAN :
       IF threw
       THEN /\ tasks' = [tasks EXCEPT ![i].pc = "done", ![i].answer = "lookup_threw"]
            /\ completed' = Append(completed, i)
            /\ induced' = induced \cup {"lookup_fault"}
            /\ UNCHANGED calls
       ELSE /\ tasks' = [tasks EXCEPT ![i].pc = "exists"]
            /\ calls' = Append(calls, Call("element.isExisting", <<tasks[i].val>>))
            /\ UNCHANGED <<completed, induced>>
  /\ UNCHANGED <<session, pc, tool, args, env, reply, payload, tree, flat>>

\* await element.isExisting() settles for argument i
ExistsSettles(i) ==
  /\ pc = "resolving"
  /\ i \in 1..Len(tasks)
  /\ tasks[i].pc = "exists"
  /\ \E answer \in {"exists", "missing", "exists_threw"} :
       /\ tasks' = [tasks EXCEPT ![i] =
                      [pc |-> "done", val |-> Resolved(@.val, answer), answer |-> answer]]
       /\ induced' = IF answer = "exists_threw"
                     THEN induced \cup {"exists_fault"} ELSE induced
  /\ completed' = Append(completed, i)
  /\ UNCHANGED <<session, pc, tool, args, env, calls, reply, payload, tree, flat>>

\* Promise.all has settled: browser.execute and the result
ExecuteScriptDispatch ==
  /\ pc = "resolving"
  /\ AllSettled(tasks)
  /\ \E outcome \in ScriptOutcomes :
       Return("execute_script", args, outcome,
              Handle("executing script",
                     ExecuteBody(args.script, PromiseAll(tasks, completed), outcome)),
              Null)

Next ==
  \/ TapElement
  \/ Swipe
  \/ DragAndDrop
  \/ Scroll
  \/ RotateDevice
  \/ HideKeyboard
  \/ GetGeolocation
  \/ SetGeolocation
  \/ GetAccessibility
  \/ ExecuteScriptStart
  \/ \E i \in 1..MaxArgs : LookupSettles(i)
  \/ \E i \in 1..MaxArgs : ExistsSettles(i)
  \/ ExecuteScriptDispatch

Spec == Init /\ [][Next]_vars

----------------------------------------------------------------------------
(* Flattening on its own: one raw tree, flattened once. *)

InitFlatten ==
  /\ session = "browser"
  /\ pc = "flatten"
  /\ tool = "none"
  /\ args = Undefined
  /\ env = Undefined
  /\ calls = <<>>
  /\ reply = NoResult
  /\ induced = {}
  /\ tasks = <<>>
  /\ completed = <<>>
  /\ payload = Null
  /\ tree \in AttrTrees \cup DeepTrees
  /\ flat = <<>>

Flatten ==
  /\ pc = "flatten"
  /\ pc' = "flattened"
  /\ flat' = FlattenAccessibilityTree(tree, <<>>)
  /\ UNCHANGED <<session, tool, args, env, calls, reply, induced, tasks, completed,
                 payload, tree>>

NextFlatten == Flatten

SpecFlatten == InitFlatten /\ [][NextFlatten]_vars

----------------------------------------------------------------------------
(* Normalisation on its own: one snapshot and one set of arguments. *)

InitNormalize ==
  /\ session = "browser"
  /\ pc = "normalize"
  /\ tool = "none"
  /\ args \in AccessibilityArgs
  /\ env = Undefined
  /\ calls = <<>>
  /\ reply = NoResult
  /\ induced = {}
  /\ tasks = <<>>
  /\ completed = <<>>
  /\ payload = Null
  /\ tree \in Trees
  /\ flat = <<>>

NormalizeStep ==
  /\ pc = "normalize"
  /\ pc' = "normalized"
  /\ payload' = Normalize(tree, args)
  /\ UNCHANGED <<session, tool, args, env, calls, reply, induced, tasks, completed,
                 tree, flat>>

NextNormalize == NormalizeStep

SpecNormalize == InitNormalize /\ [][NextNormalize]_vars

----------------------------------------------------------------------------
(* Properties. *)

Done == pc = "done"

Handlers ==
  {"tap_element", "swipe", "drag_and_drop", "scroll", "get_accessibility",
   "execute_script", "rotate_device", "hide_keyboard", "get_geolocation",
   "set_geolocation"}

MobileKinds == {"mobile-android", "mobile-ios"}

\* The reply is one text block whose text starts with "Error", and was returned.
IsErrorEnvelope ==
  /\ ~reply.raised
  /\ Len(reply.content) = 1
  /\ reply.content[1].type = "text"
  /\ Len(reply.content[1].text) >= 5
  /\ SubSeq(reply.content[1].text, 1, 5) = "Error"

NotGiven(v) == v = Undefined \/ v = S("")

\* tap_element with neither a selector nor both x and y; drag_and_drop with a
\* sourceSelector but neither a targetSelector nor both x and y.
MissingArguments ==
  \/ /\ tool = "tap_element"
     /\ NotGiven(args.selector)
     /\ (args.x = Undefined \/ args.y = Undefined)
  \/ /\ tool = "drag_and_drop"
     /\ ~NotGiven(args.sourceSelector)
     /\ NotGiven(args.targetSelector)
     /\ (args.x = Undefined \/ args.y = Undefined)

WrongSessionKind == tool \in {"scroll", "get_accessibility"} /\ session \in MobileKinds

ProviderFault == tool \in Handlers /\ session = "none"

\* C1 as stated: every handler, under every induced failure condition (missing
\* arguments, wrong session kind, a fault of the session provider or of the
\* backend driver at any step), returns one text block starting with "Error"
\* and does not raise.
C1_ErrorEnvelopeAnyFault ==
  (Done /\ (MissingArguments \/ WrongSessionKind \/ ProviderFault \/ induced # {}))
    => IsErrorEnvelope

\* C1 amended: the same, except that a fault of the element lookup or of the
\* existence check of an execute_script argument is absorbed and does not by
\* itself make the reply an error; no handler ever raises.
C1_ErrorEnvelope ==
  /\ Done => ~reply.raised /\ Len(reply.content) = 1 /\ reply.content[1].type = "text"
  /\ (Done /\ (MissingArguments \/ WrongSessionKind \/ ProviderFault
                 \/ "backend_fault" \in induced))
       => IsErrorEnvelope

C1_Witness ==
  /\ Done
  /\ tool = "execute_script"
  /\ "lookup_fault" \in induced
  /\ "backend_fault" \in induced
  /\ reply.content[1].text = "Error executing script: Error: backend fault"

\* C2 as stated: tap_element and drag_and_drop called without either form of
\* the required input return an error result and issue no backend driver call
\* at any point of the invocation.
C2_MissingArgumentAbort ==
  (tool \in {"tap_element", "drag_and_drop"} /\ MissingArguments)
    => /\ calls = <<>>
       /\ Done => IsErrorEnvelope

\* C3: on a mobile-android or mobile-ios session, scroll and get_accessibility
\* each return an error text stating the browser-only restriction and issue no
\* backend call (no viewport scroll, no page list, no snapshot).
C3_MobileApplicability ==
  (Done /\ session \in MobileKinds) =>
    /\ tool = "scroll" =>
         /\ calls = <<>>
         /\ reply = [raised |-> FALSE,
                     content |-> <<[type |-> "text",
                                    text |-> "Error scrolling: Error: scroll only works in "
                                             \o "browser sessions. For mobile, use the swipe tool."]>>]
    /\ tool = "get_accessibility" =>
         /\ calls = <<>>
         /\ reply = [raised |-> FALSE,
                     content |-> <<[type |-> "text",
                                    text |-> "Error: get_accessibility is browser-only. For "
                                             \o "mobile apps, use get_visible_elements instead."]>>]

C3_Witness ==
  /\ Done
  /\ session = "mobile-ios"
  /\ tool = "scroll"
  /\ args = [direction |-> "up", pixels |-> N(200)]
  /\ calls = <<>>

\* C4: swipe, given a session handle, issues exactly one backend swipe: finger
\* direction the inverse of the content direction, duration the supplied one
\* or 500, percent the supplied one (an explicit 0 included) or 0.5 for up and
\* down and 0.95 for left and right (in hundredths: 50 and 95); with no
\* session handle it issues none.
C4_SwipeTranslation ==
  (Done /\ tool = "swipe") =>
    LET d == args.direction
        finger == CASE d = "up" -> "down" [] d = "down" -> "up"
                    [] d = "left" -> "right" [] d = "right" -> "left"
        duration == IF args.duration = Undefined THEN N(500) ELSE args.duration
        percent == IF args.percent # Undefined THEN args.percent
                   ELSE IF d \in {"up", "down"} THEN N(50) ELSE N(95)
    IN IF session = "none" THEN calls = <<>>
       ELSE calls = <<[op |-> "swipe", args |-> <<S(finger), duration, percent>>]>>

C4_Witness ==
  /\ Done
  /\ tool = "swipe"
  /\ args = [direction |-> "left", duration |-> Undefined, percent |-> N(0)]
  /\ calls = <<[op |-> "swipe", args |-> <<S("right"), N(500), N(0)>>]>>
  /\ reply.content[1].text = "Swiped left"

Min(a, b) == IF a < b THEN a ELSE b
Max(a, b) == IF a > b THEN a ELSE b

\* C5: the nodes get_accessibility returns are the filtered entries at
\* positions O .. O+showing-1 in their order, showing = min(max(total - O, 0),
\* L or unlimited when L = 0) and hasMore = (O + showing < total), with total
\* the number of entries left after filtering; O >= total gives no nodes and
\* hasMore false.  L and O default to 100 and 0.
C5_Pagination ==
  pc = "normalized" =>
    LET named == IF args.namedOnly = Undefined THEN B(TRUE) ELSE args.namedOnly
        filtered == FilterRoles(FilterNamed(FlattenAccessibilityTree(tree, <<>>), named),
                                args.roles)
        total == Len(filtered)
        L == IF args.limit = Undefined THEN 100 ELSE args.limit.num
        O == IF args.offset = Undefined THEN 0 ELSE args.offset.num
        left == Max(total - O, 0)
        showing == IF L = 0 THEN left ELSE Min(left, L)
    IN /\ payload.total = total
       /\ payload.showing = showing
       /\ payload.nodes = [i \in 1..showing |-> filtered[O + i]]
       /\ payload.hasMore = (O + showing < total)
       /\ O >= total => payload.nodes = <<>> /\ ~payload.hasMore

C5_Witness ==
  /\ pc = "normalized"
  /\ args.limit = N(1)
  /\ args.offset = N(1)
  /\ payload.total = 3
  /\ payload.showing = 1
  /\ payload.hasMore

\* The arguments execute_script was called with, and those it handed to
\* browser.execute (the last call of a finished invocation that had a session).
RawArgs == IF args.args = Undefined THEN <<>> ELSE args.args.arr
Dispatched == calls[Len(calls)]
PassedArgs == Tail(Dispatched.args)
IsMobileCommand == Len(args.script) >= 7 /\ SubSeq(args.script, 1, 7) = "mobile:"
LookupOps == {"$", "element.isExisting"}

\* C6: when the script starts with "mobile:", no element lookup is attempted,
\* whatever the arguments (strings included), and browser.execute receives the
\* raw arguments, element for element and in the same order.
C6_MobilePassthrough ==
  (tool = "execute_script" /\ IsMobileCommand) =>
    /\ \A k \in 1..Len(calls) : calls[k].op \notin LookupOps
    /\ (Done /\ session # "none") =>
         calls = <<[op |-> "execute", args |-> <<S(args.script)>> \o RawArgs]>>

C6_Witness ==
  /\ Done
  /\ tool = "execute_script"
  /\ session = "mobile-android"
  /\ args.script = "mobile: pressKey"
  /\ RawArgs = <<S("#a"), Obj("{\n  \"keycode\": 4\n}")>>
  /\ PassedArgs = RawArgs

\* C7: whatever the order in which the per-argument resolutions settle, the
\* list handed to browser.execute has the length of the raw list, its i-th
\* element is rawArgs[i] or the element handle resolved from rawArgs[i], and
\* the script is dispatched only once every resolution has settled.
C7_ArgumentOrder ==
  (tool = "execute_script" /\ session # "none") =>
    /\ (\E k \in 1..Len(calls) : calls[k].op = "execute") =>
         /\ Done
         /\ \A i \in 1..Len(tasks) : tasks[i].pc = "done"
         /\ Len(completed) = Len(RawArgs)
    /\ Done =>
         /\ Dispatched.op = "execute"
         /\ Len(PassedArgs) = Len(RawArgs)
         /\ \A i \in 1..Len(RawArgs) :
              \/ PassedArgs[i] = RawArgs[i]
              \/ DOMAIN RawArgs[i] = {"str"} /\ PassedArgs[i] = [elem |-> RawArgs[i].str]

C7_Witness ==
  /\ Done
  /\ tool = "execute_script"
  /\ RawArgs = <<S("#a"), S("hello")>>
  /\ completed = <<2, 1>>
  /\ PassedArgs = <<Element("#a"), S("hello")>>

\* C8: for a script that is no mobile command, a string argument is replaced
\* by the element handle only if its lookup succeeded and the element exists;
\* if the lookup or the existence check threw, or the element does not exist,
\* the string is passed unchanged; the failure is not propagated (the script
\* is dispatched, and the reply is an error only if the script execution
\* itself faulted); a non-string argument is passed unchanged with no lookup.
C8_SoftResolutionMiss ==
  (tool = "execute_script" /\ session # "none" /\ ~IsMobileCommand) =>
    /\ \A k \in 1..Len(calls) :
         calls[k].op \in LookupOps => DOMAIN calls[k].args[1] = {"str"}
    /\ Done =>
         /\ Dispatched.op = "execute"
         /\ Len(PassedArgs) = Len(RawArgs)
         /\ \A i \in 1..Len(RawArgs) :
              IF DOMAIN RawArgs[i] = {"str"}
              THEN PassedArgs[i] = IF tasks[i].answer = "exists"
                                   THEN [elem |-> RawArgs[i].str] ELSE RawArgs[i]
              ELSE PassedArgs[i] = RawArgs[i] /\ tasks[i].answer = "none"
         /\ env # BackendFault => ~IsErrorEnvelope

C8_Witness ==
  /\ Done
  /\ tool = "execute_script"
  /\ ~IsMobileCommand
  /\ Len(tasks) = 2
  /\ tasks[1].answer = "lookup_threw"
  /\ tasks[2].answer = "exists_threw"
  /\ PassedArgs = RawArgs
  /\ reply.content[1].text = "Result: 7"

\* C9: every entry the flattening emits has the same keys in the same order
\* (the 25 attribute slots), none absent, and an attribute the raw node lacks
\* is recorded as the empty string, never as null or left out.
C9_UniformSchema ==
  pc = "flattened" =>
    /\ \A i \in 1..Len(flat) :
         /\ EntryKeys(flat[i]) =
              <<"role", "name", "value", "description", "disabled", "focused",
                "selected", "checked", "expanded", "pressed", "readonly", "required",
                "level", "valuemin", "valuemax", "autocomplete", "haspopup", "invalid",
                "modal", "multiline", "multiselectable", "orientation", "keyshortcuts",
                "roledescription", "valuetext">>
         /\ \A j \in 1..Len(flat) : EntryKeys(flat[j]) = EntryKeys(flat[i])
         /\ \A k \in 1..Len(flat[i]) :
              flat[i][k][2] # Undefined /\ flat[i][k][2] # Null
    /\ tree.attrs.role # S("WebArea") =>
         \A k \in 1..Len(flat[1]) :
           tree.attrs[flat[1][k][1]] = Undefined => flat[1][k][2] = S("")

C9_Witness ==
  /\ pc = "flattened"
  /\ Len(flat) = 3
  /\ tree.attrs.role = S("button")
  /\ tree.attrs.value = Undefined
  /\ tree.attrs.level = N(0)
  /\ EntryGet(flat[1], "value") = S("")
  /\ EntryGet(flat[1], "level") = N(0)

TriStateKeys == {"checked", "pressed"}
TwoStateKeys ==
  {"disabled", "focused", "selected", "expanded", "readonly", "required", "invalid",
   "modal", "multiline", "multiselectable"}

\* The entry value that matches a raw tri-state value.
TriStateText(raw) ==
  IF raw = B(TRUE) THEN S("true")
  ELSE IF raw = B(FALSE) THEN S("false")
  ELSE IF raw = S("mixed") THEN S("mixed")
  ELSE S("")

\* checked and pressed of every entry are "true", "false", "mixed" or "", and
\* those of the root's entry match the root's raw values.
TriStatesSerialized ==
  /\ \A i \in 1..Len(flat) : \A k \in TriStateKeys :
       EntryGet(flat[i], k) \in {S("true"), S("false"), S("mixed"), S("")}
  /\ tree.attrs.role # S("WebArea") =>
       \A k \in TriStateKeys : EntryGet(flat[1], k) = TriStateText(tree.attrs[k])

\* The two-state attributes in keys are "true" or "", never "false": "true"
\* for a raw true, "" for a raw false or a missing attribute.
FlagsSerialized(keys) ==
  /\ \A i \in 1..Len(flat) : \A k \in keys :
       EntryGet(flat[i], k) \in {S("true"), S("")}
  /\ tree.attrs.role # S("WebArea") =>
       \A k \in keys :
         /\ tree.attrs[k] = B(TRUE) => EntryGet(flat[1], k) = S("true")
         /\ tree.attrs[k] \in {B(FALSE), Undefined} => EntryGet(flat[1], k) = S("")

RECURSIVE Positions(_)
Positions(node) ==
  {<<>>} \cup
    (IF Truthy(node.children)
     THEN UNION {{<<i>> \o p : p \in Positions(node.children.arr[i])} :
                   i \in 1..Len(node.children.arr)}
     ELSE {})

RECURSIVE NodeAt(_, _)
NodeAt(node, p) ==
  IF p = <<>> THEN node ELSE NodeAt(node.children.arr[Head(p)], Tail(p))

\* p comes before q in depth-first pre-order: p is an ancestor of q, or at
\* the first index where they part p takes the earlier sibling.
PreOrderBefore(p, q) ==
  \/ Len(p) < Len(q) /\ SubSeq(q, 1, Len(p)) = p
  \/ \E i \in 1..Min(Len(p), Len(q)) :
       /\ SubSeq(p, 1, i - 1) = SubSeq(q, 1, i - 1)
       /\ p[i] < q[i]

\* A node of the document-root type that carries no name.
IsUnnamedWebArea(node) == node.attrs.role = S("WebArea") /\ ~Truthy(node.attrs.name)

\* The positions that contribute an entry, and the place of each in the list.
EmittedPositions(node) == {p \in Positions(node) : ~IsUnnamedWebArea(NodeAt(node, p))}

RankOf(node, p) ==
  1 + Cardinality({q \in EmittedPositions(node) : PreOrderBefore(q, p)})

\* C11: the flat list holds exactly one entry per node of the raw tree other
\* than the unnamed WebArea nodes, in depth-first pre-order: a parent before
\* all of its descendants and siblings in their original order; an unnamed
\* WebArea node contributes no entry and its descendants keep their places.
C11_FlatteningOrder ==
  pc = "flattened" =>
    /\ Len(flat) = Cardinality(EmittedPositions(tree))
    /\ \A p \in EmittedPositions(tree) :
         flat[RankOf(tree, p)] = Entry(NodeAt(tree, p))

C11_Witness ==
  /\ pc = "flattened"
  /\ IsUnnamedWebArea(tree)
  /\ Positions(tree) = {<<>>, <<1>>, <<1, 1>>, <<2>>}
  /\ NodeAt(tree, <<1>>).attrs.name = S("OK")
  /\ NodeAt(tree, <<1, 1>>).attrs.name = S(" ")
  /\ NodeAt(tree, <<2>>).attrs.name = S("OK")
  /\ Len(flat) = 3
  /\ [i \in 1..3 |-> EntryGet(flat[i], "name")] = <<S("OK"), S(" "), S("OK")>>

====
